---- MODULE Spec2Model ----
(***************************************************************************)
(* hddtemp: the reading cache, the smartctl classifier and the TCP daemon  *)
(* of src/hddtemp.py, as a state machine.                                  *)
(*                                                                         *)
(*   Spec         connection workers sharing one ReadingCache              *)
(*   ClassifySpec run_smartctl applied to one outcome of the tool          *)
(*   ExtractSpec  extract_temperature_c applied to one ATA table           *)
(*   DaemonSpec   run_daemon_mode: serve_forever, the stop signal          *)
(***************************************************************************)
EXTENDS Integers, Sequences, FiniteSets, TLC

\* ------------------------------------------------------------------ bounds
NumThreads == 2
MaxClock == 3
MinInterval == 2
MaxBatches == 3
MaxRows == 3
MaxSignals == 2
NumWorkers == 3

Threads == 1..NumThreads
NoThread == 0

\* ------------------------------------------------- values of the JSON tree
\* A JSON scalar as parse_int sees it: an int, a float NaN, or anything
\* parse_int answers None for (a missing key, null, a list, a non-dict parent).
None == [k |-> "none", n |-> 0]
NaN == [k |-> "nan", n |-> 0]
Raise == [k |-> "raise", n |-> 0]
IntV(n) == [k |-> "int", n |-> n]

parse_int(value) ==
    CASE value.k = "int" -> value
      [] value.k = "nan" -> Raise   \* int(float("nan")) raises ValueError
      [] OTHER -> None

normalize_temp_c(value) ==
    LET parsed == parse_int(value)
        kelvin == IF parsed.n > 200 THEN parsed.n - 273 ELSE parsed.n
    IN  IF parsed.k # "int" THEN parsed
        ELSE IF kelvin < -80 \/ kelvin > 200 THEN None
        ELSE IntV(kelvin)

\* "parsed = normalize_temp_c(v); if parsed is not None: return parsed", then
\* the rest of the function; an exception leaves the function like a return.
FirstParsed(value, rest) ==
    LET parsed == normalize_temp_c(value)
    IN  IF parsed # None THEN parsed ELSE rest

AttrIdPriority == <<194, 190, 231>>

RECURSIVE ScanRows(_, _, _, _)
ScanRows(table, attr_id, i, rest) ==
    IF i > Len(table) THEN rest
    ELSE IF table[i].id # attr_id THEN ScanRows(table, attr_id, i + 1, rest)
    ELSE FirstParsed(table[i].raw,
             FirstParsed(table[i].value, ScanRows(table, attr_id, i + 1, rest)))

RECURSIVE ScanIdsFrom(_, _, _)
ScanIdsFrom(table, ids, k) ==
    IF k > Len(ids) THEN None
    ELSE ScanRows(table, ids[k], 1, ScanIdsFrom(table, ids, k + 1))

ScanIdsReversed(table, ids) ==
    ScanIdsFrom(table, [k \in 1..Len(ids) |-> ids[Len(ids) + 1 - k]], 1)

ScanIds(table, ids) == ScanIdsFrom(table, ids, 1)

extract_temperature_c(data) ==
    FirstParsed(data.temperature,
        FirstParsed(data.scsi_temperature,
            FirstParsed(data.nvme_temperature,
                ScanIds(data.table, AttrIdPriority))))

gather_messages(data, stderr) == data.messages \cup stderr

infer_status_from_messages(messages, has_temp) ==
    IF "standby" \in messages \/ "sleep" \in messages THEN "SLP"
    ELSE IF "permission denied" \in messages \/ "unable to open device" \in messages
        THEN "ERR"
    ELSE IF "no such device" \in messages \/ "cannot open" \in messages THEN "ERR"
    ELSE IF "smart support is: unavailable" \in messages THEN "NA"
    ELSE IF "unknown usb bridge" \in messages THEN "NA"
    ELSE IF has_temp THEN "KNOWN"
    ELSE "NOS"

DiskReading(drive, status, temperature_c) ==
    [drive |-> drive, status |-> status, temperature_c |-> temperature_c]

\* An exception leaving run_smartctl, in the shape of a reading so that the
\* callers can test for it.
Raised(drive) == DiskReading(drive, "RAISE", Raise)
IsRaise(reading) == reading.status = "RAISE"

run_smartctl_status_from_messages(spec, tool) ==
    IF tool.kind \in {"not_found", "timeout", "bad_json"}
        THEN DiskReading(spec, "ERR", None)
    ELSE IF tool.kind # "object" THEN Raised(spec)
    ELSE LET temperature_c == extract_temperature_c(tool)
             messages == gather_messages(tool, tool.stderr)
         IN  IF temperature_c = Raise THEN Raised(spec)
             ELSE DiskReading(spec,
                      infer_status_from_messages(messages, temperature_c # None),
                      temperature_c)

\* tool.kind is what subprocess.run and json.loads made of the invocation:
\*   not_found  FileNotFoundError            timeout   TimeoutExpired
\*   os_error   any other OSError of exec (PermissionError), not caught
\*   bad_json   JSONDecodeError              non_object  valid JSON, not a dict:
\*                                           extract_model's data.get raises
\*   object     a JSON object
run_smartctl(spec, tool) ==
    IF tool.kind \in {"not_found", "timeout", "bad_json"}
        THEN DiskReading(spec, "ERR", None)
    ELSE IF tool.kind # "object" THEN Raised(spec)
    ELSE LET temperature_c == extract_temperature_c(tool)
             messages == gather_messages(tool, tool.stderr)
             status == infer_status_from_messages(messages, temperature_c # None)
         IN  IF temperature_c = Raise THEN Raised(spec)
             ELSE IF temperature_c # None
                 THEN DiskReading(spec, "KNOWN", temperature_c)
             ELSE DiskReading(spec, status, None)

Tool(kind, temperature, messages) ==
    [kind |-> kind, temperature |-> temperature, scsi_temperature |-> None,
     nvme_temperature |-> None, table |-> <<>>, messages |-> messages,
     stderr |-> {}]

\* --------------------------------------------------------------- variables
VARIABLES
    \* ReadingCache and the connection workers (Spec)
    clock,           \* time.monotonic()
    lock,            \* ReadingCache.lock: its holder, or NoThread
    last_update,     \* ReadingCache.last_update
    readings,        \* ReadingCache.readings
    pc,              \* where each worker is in HDDTempTCPHandler.handle
    now,             \* get()'s local "now" of each worker
    batch,           \* the list comprehension of each worker, as far as built
    snap,            \* what get() returned to each worker, until it is sent
    \* history of the cache, read by the properties only
    batchNo,         \* refresh batches started so far
    batchStart,      \* clock at which the latest batch started, -1 if none
    prevBatchStart,  \* while a batch runs: when the batch before it started
    started,         \* batchNo when get() returned to each worker
    stamp,           \* last_update when get() returned to each worker
    waitedFor,       \* the batch that ran while this worker waited for the lock
    refreshEnd,      \* clock at which the latest completed batch ended
    \* run_smartctl on one outcome of the tool (ClassifySpec)
    tool, reading,
    \* extract_temperature_c on one ATA table (ExtractSpec)
    payload, extracted,
    \* run_daemon_mode (DaemonSpec)
    mainPc,           \* where the main thread is
    shutdown_request, \* BaseServer.__shutdown_request
    is_shut_down,     \* BaseServer.__is_shut_down
    stop_requested,   \* stop_requested["value"]
    socketOpen,       \* the listening socket
    conn,             \* the connection worker threads of the daemon
    signals,          \* stop signals delivered so far
    exitCode          \* what run_daemon_mode returned, -1 before

cacheVars == <<clock, lock, last_update, readings, pc, now, batch, snap,
               batchNo, batchStart, prevBatchStart, started, stamp, waitedFor,
               refreshEnd>>
classifyVars == <<tool, reading>>
extractVars == <<payload, extracted>>
daemonVars == <<mainPc, shutdown_request, is_shut_down, stop_requested,
                socketOpen, conn, signals, exitCode>>
vars == <<cacheVars, classifyVars, extractVars, daemonVars>>

\* ---------------------------------------------------------- ReadingCache
\* args.drives after parse_device_spec: the configured devices, in order
Devices == <<"/dev/sda", "/dev/sdb">>

\* What smartctl answers while the daemon runs: a temperature, the binary
\* missing, and output that is JSON but not an object.
CacheTools ==
    {Tool("object", IntV(34), {}), Tool("not_found", None, {}),
     Tool("non_object", None, {})}

InitCache ==
    /\ clock = 0
    /\ lock = NoThread
    /\ last_update = 0
    /\ readings = <<>>
    /\ pc = [t \in Threads |-> "idle"]
    /\ now = [t \in Threads |-> 0]
    /\ batch = [t \in Threads |-> <<>>]
    /\ snap = [t \in Threads |-> <<>>]
    /\ batchNo = 0
    /\ batchStart = -1
    /\ prevBatchStart = -1
    /\ started = [t \in Threads |-> 0]
    /\ stamp = [t \in Threads |-> 0]
    /\ waitedFor = [t \in Threads |-> 0]
    /\ refreshEnd = -1

Refreshing(t) == pc[t] \in {"refresh", "polling"}

LockFreeAlways(l) == TRUE

\* "with self.lock:" is entered
LockFree(l) == l = NoThread

LockKept(t) == t

\* "with self.lock:" is left, by return or by exception
LockAfterGet(t) == NoThread

RefreshDueFlipped(rd, n, lu) == rd = <<>> \/ (n - lu) < MinInterval

\* "if not self.readings or (now - self.last_update) >= self.min_interval"
RefreshDue(rd, n, lu) == rd = <<>> \/ (n - lu) >= MinInterval

AssignReadingsInPlace(cur, built) ==
    [i \in 1..(IF Len(cur) > Len(built) THEN Len(cur) ELSE Len(built)) |->
        IF i <= Len(built) THEN built[i] ELSE cur[i]]

\* "self.readings = [run_smartctl(...) for device in self.devices]": the name
\* is bound when the comprehension has run over every device.
AssignReadings(cur, built) == IF Len(built) = Len(Devices) THEN built ELSE cur

Tagged(r, b) == [drive |-> r.drive, status |-> r.status,
                 temperature_c |-> r.temperature_c, batch |-> b]

Content(s) == [i \in 1..Len(s) |->
                  DiskReading(s[i].drive, s[i].status, s[i].temperature_c)]

\* "return list(self.readings)"
Returned(t, s, lu) ==
    /\ snap' = [snap EXCEPT ![t] = s]
    /\ started' = [started EXCEPT ![t] = batchNo]
    /\ stamp' = [stamp EXCEPT ![t] = lu]
    /\ waitedFor' = [waitedFor EXCEPT ![t] = 0]

\* A connection is accepted and its worker calls server.cache.get().
Connect(t) ==
    /\ pc[t] = "idle"
    /\ batchNo < MaxBatches
    /\ pc' = [pc EXCEPT ![t] = "wait"]
    /\ waitedFor' = [waitedFor EXCEPT ![t] =
                        IF lock # NoThread /\ Refreshing(lock) THEN batchNo ELSE 0]
    /\ UNCHANGED <<clock, lock, last_update, readings, now, batch, snap, batchNo,
                   batchStart, prevBatchStart, started, stamp, refreshEnd>>
    /\ UNCHANGED <<classifyVars, extractVars, daemonVars>>

\* The worker takes the lock and reads the clock. Fresh readings are copied
\* and returned at once; otherwise the batch starts.
Acquire(t) ==
    /\ pc[t] = "wait"
    /\ LockFree(lock)
    /\ now' = [now EXCEPT ![t] = clock]
    /\ IF RefreshDue(readings, clock, last_update)
         THEN /\ lock' = t
              /\ pc' = [pc EXCEPT ![t] = "refresh"]
              /\ batch' = [batch EXCEPT ![t] = <<>>]
              /\ batchNo' = batchNo + 1
              /\ prevBatchStart' = batchStart
              /\ batchStart' = clock
              /\ waitedFor' = [u \in Threads |->
                                  IF u # t /\ pc[u] = "wait" THEN batchNo + 1
                                  ELSE waitedFor[u]]
              /\ UNCHANGED <<snap, started, stamp>>
         ELSE /\ lock' = LockAfterGet(t)
              /\ pc' = [pc EXCEPT ![t] = "send"]
              /\ batchNo' = batchNo
              /\ Returned(t, readings, last_update)
              /\ UNCHANGED <<batch, batchStart, prevBatchStart>>
    /\ UNCHANGED <<clock, last_update, readings, refreshEnd>>
    /\ UNCHANGED <<classifyVars, extractVars, daemonVars>>

\* subprocess.run starts smartctl for the next device of the batch.
StartPoll(t) ==
    /\ pc[t] = "refresh"
    /\ pc' = [pc EXCEPT ![t] = "polling"]
    /\ UNCHANGED <<clock, lock, last_update, readings, now, batch, snap, batchNo,
                   batchStart, prevBatchStart, started, stamp, waitedFor,
                   refreshEnd>>
    /\ UNCHANGED <<classifyVars, extractVars, daemonVars>>

\* run_smartctl comes back for that device. An exception leaves get(); the
\* last device completes the batch, which is stored, stamped and returned.
FinishPoll(t) ==
    /\ pc[t] = "polling"
    /\ \E o \in CacheTools :
        LET r == run_smartctl(Devices[Len(batch[t]) + 1], o)
            built == Append(batch[t], Tagged(r, batchNo))
        IN  IF IsRaise(r)
              THEN /\ pc' = [pc EXCEPT ![t] = "raised"]
                   /\ batch' = [batch EXCEPT ![t] = <<>>]
                   /\ lock' = LockAfterGet(t)
                   /\ readings' = AssignReadings(readings, batch[t])
                   /\ waitedFor' = [waitedFor EXCEPT ![t] = 0]
                   /\ prevBatchStart' = -1
                   /\ UNCHANGED <<last_update, snap, started, stamp, refreshEnd>>
              ELSE IF Len(built) < Len(Devices)
              THEN /\ pc' = [pc EXCEPT ![t] = "refresh"]
                   /\ batch' = [batch EXCEPT ![t] = built]
                   /\ readings' = AssignReadings(readings, built)
                   /\ UNCHANGED <<lock, last_update, snap, started, stamp,
                                  waitedFor, prevBatchStart, refreshEnd>>
              ELSE /\ pc' = [pc EXCEPT ![t] = "send"]
                   /\ batch' = [batch EXCEPT ![t] = <<>>]
                   /\ readings' = AssignReadings(readings, built)
                   /\ last_update' = now[t]
                   /\ lock' = LockAfterGet(t)
                   /\ Returned(t, AssignReadings(readings, built), now[t])
                   /\ prevBatchStart' = -1
                   /\ refreshEnd' = clock
    /\ UNCHANGED <<clock, now, batchNo, batchStart>>
    /\ UNCHANGED <<classifyVars, extractVars, daemonVars>>

\* self.request.sendall(payload): the client has read the payload.
Sendall(t) ==
    /\ pc[t] = "send"
    /\ pc' = [pc EXCEPT ![t] = "idle"]
    /\ snap' = [snap EXCEPT ![t] = <<>>]
    /\ started' = [started EXCEPT ![t] = 0]
    /\ stamp' = [stamp EXCEPT ![t] = 0]
    /\ now' = [now EXCEPT ![t] = 0]
    /\ UNCHANGED <<clock, lock, last_update, readings, batch, batchNo, batchStart,
                   prevBatchStart, waitedFor, refreshEnd>>
    /\ UNCHANGED <<classifyVars, extractVars, daemonVars>>

\* handle() ended by the exception of get(): nothing was written.
Abort(t) ==
    /\ pc[t] = "raised"
    /\ pc' = [pc EXCEPT ![t] = "idle"]
    /\ now' = [now EXCEPT ![t] = 0]
    /\ UNCHANGED <<clock, lock, last_update, readings, batch, snap, batchNo,
                   batchStart, prevBatchStart, started, stamp, waitedFor,
                   refreshEnd>>
    /\ UNCHANGED <<classifyVars, extractVars, daemonVars>>

Tick ==
    /\ clock < MaxClock
    /\ clock' = clock + 1
    /\ UNCHANGED <<lock, last_update, readings, pc, now, batch, snap, batchNo,
                   batchStart, prevBatchStart, started, stamp, waitedFor,
                   refreshEnd>>
    /\ UNCHANGED <<classifyVars, extractVars, daemonVars>>

Pending == DiskReading("", "PENDING", None)

InitClassify == tool = Tool("object", None, {}) /\ reading = Pending
InitExtract == payload = <<>> /\ extracted = None
InitDaemon ==
    /\ mainPc = "serving"
    /\ shutdown_request = FALSE
    /\ is_shut_down = FALSE
    /\ stop_requested = FALSE
    /\ socketOpen = TRUE
    /\ conn = [w \in 1..NumWorkers |-> "none"]
    /\ signals = 0
    /\ exitCode = -1

Init == InitCache /\ InitClassify /\ InitExtract /\ InitDaemon

Next ==
    \/ \E t \in Threads : Connect(t)
    \/ \E t \in Threads : Acquire(t)
    \/ \E t \in Threads : StartPoll(t)
    \/ \E t \in Threads : FinishPoll(t)
    \/ \E t \in Threads : Sendall(t)
    \/ \E t \in Threads : Abort(t)
    \/ Tick

Spec == Init /\ [][Next]_vars

\* ------------------------------------------------- properties of the cache
Abs(x) == IF x < 0 THEN 0 - x ELSE x

\* The batch whose readings the cache holds, 0 before the first one.
StoredBatch == IF readings = <<>> THEN 0 ELSE readings[1].batch

\* C1: a worker that was blocked on the lock while a refresh batch ran shares
\* that batch: when it then takes the lock and reads the clock less than
\* min_interval after the batch completed, it starts no batch of its own,
\* however long the batch took.
C1_StampedeCollapses ==
    \A t \in Threads :
        ~(/\ Refreshing(t)
          /\ waitedFor[t] # 0
          /\ waitedFor[t] = StoredBatch
          /\ now[t] - refreshEnd < MinInterval)

\* C2: at most one refresh batch, and so at most one run_smartctl, is in
\* progress at any instant, and it runs under the lock.
C2_BatchesSerialized ==
    /\ Cardinality({t \in Threads : Refreshing(t)}) <= 1
    /\ Cardinality({t \in Threads : pc[t] = "polling"}) <= 1
    /\ \A t \in Threads : Refreshing(t) => lock = t

C2_Witness ==
    \E t, u \in Threads :
        /\ pc[t] = "polling" /\ Len(batch[t]) = 1
        /\ pc[u] = "wait" /\ waitedFor[u] = batchNo

Complete(s) ==
    /\ Len(s) = Len(Devices)
    /\ \A i \in 1..Len(s) : s[i].drive = Devices[i] /\ s[i].batch = s[1].batch

\* C3: every snapshot get() returns is one complete batch: one reading per
\* configured device, in configuration order, all of the same batch.
C3_SnapshotIsOneBatch == \A t \in Threads : pc[t] = "send" => Complete(snap[t])

C3_Witness ==
    \E t, u \in Threads :
        /\ pc[t] = "send" /\ snap[t] # <<>>
        /\ pc[u] = "refresh" /\ Len(batch[u]) = 1 /\ batchNo > snap[t][1].batch

\* C4 as stated: any two get() calls that read the clock less than
\* min_interval apart return the same content, with no batch between them.
C4_AnyTwoCallsAgree ==
    \A t, u \in Threads :
        (pc[t] = "send" /\ pc[u] = "send" /\ Abs(now[t] - now[u]) < MinInterval)
            => Content(snap[t]) = Content(snap[u]) /\ started[t] = started[u]

\* C4 as amended: two get() calls that each read the clock less than
\* min_interval after the same last_update return the same content, and no
\* run_smartctl invocation lies between their returns.
C4_CallsOfOneBatchAgree ==
    \A t, u \in Threads :
        (/\ pc[t] = "send" /\ pc[u] = "send"
         /\ stamp[t] = stamp[u]
         /\ now[t] - stamp[t] < MinInterval
         /\ now[u] - stamp[u] < MinInterval)
            => Content(snap[t]) = Content(snap[u]) /\ started[t] = started[u]

C4_Witness ==
    \E t, u \in Threads :
        /\ pc[t] = "send" /\ pc[u] = "send"
        /\ stamp[t] = stamp[u] /\ now[t] = stamp[t] /\ now[u] = now[t] + 1
        /\ started[t] = started[u] /\ started[t] > 1

\* C5: two successive refresh batches start at least min_interval apart.
C5_BatchesSpaced ==
    prevBatchStart # -1 => batchStart - prevBatchStart >= MinInterval

\* C6: run_smartctl never raises, so get() never raises and no connection
\* ends without its payload.
C6_GetNeverRaises == \A t \in Threads : pc[t] # "raised"

\* C9: a worker stalled in sendall does not hold the cache lock; the lock is
\* free or held by a worker inside get().
C9_SenderHoldsNoLock ==
    /\ \A t \in Threads : pc[t] = "send" => lock # t
    /\ lock # NoThread => Refreshing(lock)

C9_Witness ==
    \E t, u \in Threads :
        /\ pc[t] = "send" /\ pc[u] = "send"
        /\ started[u] > started[t] /\ stamp[u] > stamp[t]

\* ------------------------------------------- run_smartctl on one outcome
Markers == {"standby", "smart support is: unavailable", "unknown usb bridge"}
StderrMarkers == {"sleep", "permission denied", "no such device"}

Row(id, raw, value) == [id |-> id, raw |-> raw, value |-> value]

ClassifyTools ==
    {Tool(k, None, {}) : k \in {"not_found", "timeout", "os_error", "bad_json",
                                "non_object"}}
    \cup
    [kind : {"object"},
     temperature : {None, IntV(34), IntV(310), IntV(500), NaN},
     scsi_temperature : {None, IntV(-90)},
     nvme_temperature : {None, IntV(41)},
     table : {<<>>, <<Row(194, IntV(36), None)>>},
     messages : SUBSET Markers,
     stderr : SUBSET StderrMarkers]

ClassifyInit ==
    /\ InitCache /\ InitExtract /\ InitDaemon
    /\ tool \in ClassifyTools
    /\ reading = Pending

\* reading = run_smartctl(device, wake_up)
Classify ==
    /\ reading = Pending
    /\ reading' = run_smartctl(Devices[1], tool)
    /\ UNCHANGED <<tool, cacheVars, extractVars, daemonVars>>

ClassifyNext == Classify

ClassifySpec == ClassifyInit /\ [][ClassifyNext]_vars

\* C7: a DiskReading made by run_smartctl has a temperature exactly when its
\* status is KNOWN, whatever the messages say; without a temperature the
\* status is one of SLP, ERR, NA, NOS.
C7_TemperatureIffKnown ==
    reading.status \notin {"PENDING", "RAISE"} =>
        /\ (reading.temperature_c # None) <=> (reading.status = "KNOWN")
        /\ reading.temperature_c # None =>
              reading.temperature_c = extract_temperature_c(tool)
        /\ reading.temperature_c = None =>
              reading.status \in {"SLP", "ERR", "NA", "NOS"}

C7_Witness ==
    /\ reading.status = "KNOWN"
    /\ reading.temperature_c = IntV(37)
    /\ {"standby", "permission denied"} \subseteq gather_messages(tool, tool.stderr)

\* --------------------------------- extract_temperature_c on one ATA table
RowIds == {1, 194, 190, 231}
RawValues == {IntV(34), IntV(500), NaN}
PlainValues == {None, IntV(305)}
Rows == {Row(id, raw, value) : id \in RowIds, raw \in RawValues, value \in PlainValues}

Tables == UNION {[1..n -> Rows] : n \in 0..MaxRows}

NotExtracted == [k |-> "pending", n |-> 0]

AtaOnly(table) ==
    [kind |-> "object", temperature |-> None, scsi_temperature |-> None,
     nvme_temperature |-> None, table |-> table, messages |-> {}, stderr |-> {}]

ExtractInit ==
    /\ InitCache /\ InitClassify /\ InitDaemon
    /\ payload \in Tables
    /\ extracted = NotExtracted

\* temperature_c = extract_temperature_c(parsed)
Extract ==
    /\ extracted = NotExtracted
    /\ extracted' = extract_temperature_c(AtaOnly(payload))
    /\ UNCHANGED <<payload, cacheVars, classifyVars, daemonVars>>

ExtractNext == Extract

ExtractSpec == ExtractInit /\ [][ExtractNext]_vars

HasId(table, id) == \E i \in 1..Len(table) : table[i].id = id

\* What one row gives: its raw value, else its plain value, else nothing.
RowGives(row) ==
    IF normalize_temp_c(row.raw) # None THEN normalize_temp_c(row.raw)
    ELSE normalize_temp_c(row.value)

Giving(table, id) ==
    {i \in 1..Len(table) : table[i].id = id /\ RowGives(table[i]) # None}

Least(S) == CHOOSE i \in S : \A j \in S : i <= j

\* C8 as stated: with rows for IDs 1, 194 and 231 all present, the result
\* returned is the value of an ID 194 row.
C8_Id194RowWins ==
    (/\ extracted \notin {NotExtracted, Raise}
     /\ HasId(payload, 1) /\ HasId(payload, 194) /\ HasId(payload, 231))
        => \E i \in 1..Len(payload) :
              payload[i].id = 194 /\ extracted = RowGives(payload[i])

\* C8 as amended: when some ID 194 row gives a value, the result is what the
\* first such row gives, whatever other rows are present and wherever they
\* stand; the scan is 194, then 190, then 231.
C8_Id194ValueWins ==
    extracted # NotExtracted =>
        LET winner == IF Giving(payload, 194) # {} THEN 194
                      ELSE IF Giving(payload, 190) # {} THEN 190
                      ELSE 231
        IN  IF Giving(payload, winner) = {} THEN extracted = None
            ELSE extracted = RowGives(payload[Least(Giving(payload, winner))])

C8_Witness ==
    /\ Len(payload) = 3
    /\ payload[1].id = 231 /\ RowGives(payload[1]) = IntV(32)
    /\ payload[2].id = 1
    /\ payload[3].id = 194 /\ payload[3].raw = IntV(34)
    /\ extracted = IntV(34)

\* -------------------------------------------------------- run_daemon_mode
Workers == 1..NumWorkers

DaemonInit == InitCache /\ InitClassify /\ InitExtract /\ InitDaemon

\* One pass of the loop of server.serve_forever() in the main thread: with
\* the shutdown request set the loop ends, serve_forever's finally resets the
\* request and sets __is_shut_down, server_close() closes the socket and
\* run_daemon_mode returns 0; otherwise a ready connection is accepted and
\* its worker thread started.
ServeForever ==
    /\ mainPc = "serving"
    /\ IF shutdown_request
         THEN /\ shutdown_request' = FALSE
              /\ is_shut_down' = TRUE
              /\ socketOpen' = FALSE
              /\ mainPc' = "returned"
              /\ exitCode' = 0
              /\ UNCHANGED conn
         ELSE /\ \E w \in Workers :
                    /\ conn[w] = "none"
                    /\ conn' = [conn EXCEPT ![w] = "started"]
              /\ UNCHANGED <<shutdown_request, is_shut_down, socketOpen, mainPc,
                             exitCode>>
    /\ UNCHANGED <<stop_requested, signals>>
    /\ UNCHANGED <<cacheVars, classifyVars, extractVars>>

\* SIGINT or SIGTERM: Python runs handle_stop in the main thread, on top of
\* whatever the main thread is doing (serve_forever, or an earlier
\* handle_stop). server.shutdown() sets the request and then waits for
\* __is_shut_down, which only the end of serve_forever sets.
HandleStop ==
    /\ signals < MaxSignals
    /\ mainPc \in {"serving", "shutdown_wait"}
    /\ signals' = signals + 1
    /\ stop_requested' = TRUE
    /\ shutdown_request' = TRUE
    /\ mainPc' = IF is_shut_down THEN mainPc ELSE "shutdown_wait"
    /\ UNCHANGED <<is_shut_down, socketOpen, conn, exitCode>>
    /\ UNCHANGED <<cacheVars, classifyVars, extractVars>>

\* The worker thread of a connection enters handle() and calls cache.get().
WorkerHandle(w) ==
    /\ conn[w] = "started"
    /\ conn' = [conn EXCEPT ![w] = "get"]
    /\ UNCHANGED <<mainPc, shutdown_request, is_shut_down, stop_requested,
                   socketOpen, signals, exitCode>>
    /\ UNCHANGED <<cacheVars, classifyVars, extractVars>>

\* get() returns and the payload is formatted.
WorkerGet(w) ==
    /\ conn[w] = "get"
    /\ conn' = [conn EXCEPT ![w] = "send"]
    /\ UNCHANGED <<mainPc, shutdown_request, is_shut_down, stop_requested,
                   socketOpen, signals, exitCode>>
    /\ UNCHANGED <<cacheVars, classifyVars, extractVars>>

\* sendall() is done and the connection is closed.
WorkerSend(w) ==
    /\ conn[w] = "send"
    /\ conn' = [conn EXCEPT ![w] = "none"]
    /\ UNCHANGED <<mainPc, shutdown_request, is_shut_down, stop_requested,
                   socketOpen, signals, exitCode>>
    /\ UNCHANGED <<cacheVars, classifyVars, extractVars>>

DaemonNext ==
    \/ ServeForever
    \/ HandleStop
    \/ \E w \in Workers : WorkerHandle(w)
    \/ \E w \in Workers : WorkerGet(w)
    \/ \E w \in Workers : WorkerSend(w)

\* The main thread and every worker thread keep running.
DaemonSpec ==
    /\ DaemonInit
    /\ [][DaemonNext]_vars
    /\ WF_vars(ServeForever)
    /\ \A w \in Workers :
          WF_vars(WorkerHandle(w)) /\ WF_vars(WorkerGet(w)) /\ WF_vars(WorkerSend(w))

\* Blocked in shutdown(), the main thread waits for an event that is not
\* set: no step of the main thread is left.
ShutdownWaitIsForever == mainPc = "shutdown_wait" => ~is_shut_down

\* C10: after a stop signal is handled while serve_forever runs,
\* serve_forever ends, the server socket is closed and run_daemon_mode
\* returns 0.
C10_StopLeadsToReturn ==
    stop_requested ~> (mainPc = "returned" /\ ~socketOpen /\ exitCode = 0)

====
